---- MODULE Spec2Model ----
(***************************************************************************)
(* Model of main.py of energy_reports: the enthalpy pipeline               *)
(* (calculate_enthalpy_dataframe), the equipment filter and the two        *)
(* temperature binnings used by chart_1 and the chart_2 variants.          *)
(*                                                                         *)
(* Numbers are fixed point, so that the source's decimal literals are      *)
(* exact integers:                                                         *)
(*   Power_MW, PowerSwing_MW   1/10000 MW      (30 MW    = 300000)         *)
(*   Press_psig, Press_psia    1/10 psi        (14.7 psi = 147)            *)
(*   Press_MPa                 1/10^9 MPa      (psia/10 * 6894.76 / 10^6)  *)
(*   Temp_F                    1/10 degF       (1000 degF = 10000)         *)
(*   Temp_K                    1/1800 K        (273.15 K = 491670)         *)
(*   Enthalpy_kJ_kg            10 kJ/kg        (3500 kJ/kg = 350)          *)
(*   Enthalpy_BTU_lb           1/10^6 BTU/lb   (h * 0.4299226)             *)
(*   Timestamp                 hours since 2015-01-01 00:00                *)
(* TLC's integers are 32 bits wide; the units keep every product below   *)
(* 2^31 for the pressures and enthalpies drawn here.                       *)
(* A missing value (NaN / None) is the empty sequence, a present value v   *)
(* is <<v>>.  Rendering of the figures (plotly) is not modelled.           *)
(***************************************************************************)
EXTENDS Integers, Sequences, FiniteSets, TLC

VARIABLES df, log, steam, pc, categories, df_filtered, color_map, df_agg_all, df_agg,
          groups, hourly_avg

vars == <<df, log, steam, pc, categories, df_filtered, color_map, df_agg_all, df_agg,
         groups, hourly_avg>>

\* Largest number of hourly rows of a table.
MaxRows == 2

NaN == <<>>

\* ------------------------------------------------------------------ inputs

\* Readings on every side of the thresholds of the equipment filter.
ReadingsFilter ==
    [Power_MW : {300000, 300001}, PowerSwing_MW : {30000, 30001},
     Press_psig : {2000}, Temp_F : {10000, 10430}]

\* One reading that passes the filter and one that fails each condition.
ReadingsSteady ==
    {[Power_MW |-> 300001, PowerSwing_MW |-> 30000, Press_psig |-> 2000, Temp_F |-> 10430],
     [Power_MW |-> 300000, PowerSwing_MW |-> 30000, Press_psig |-> 2000, Temp_F |-> 10430],
     [Power_MW |-> 300001, PowerSwing_MW |-> 30001, Press_psig |-> 2000, Temp_F |-> 10430],
     [Power_MW |-> 300001, PowerSwing_MW |-> 30000, Press_psig |-> 2000, Temp_F |-> 10000]}

\* Readings around zero absolute pressure (-15.0 and -14.7 psig).
ReadingsPress ==
    [Power_MW : {300001}, PowerSwing_MW : {30000},
     Press_psig : {-150, -147}, Temp_F : {10430}]

\* Readings whose temperature sits on a bin edge or just above it
\* (1050.0 and 1050.5 degF).
ReadingsBin ==
    [Power_MW : {300001}, PowerSwing_MW : {30000},
     Press_psig : {2000}, Temp_F : {10500, 10505}]

Readings == ReadingsSteady \cup ReadingsPress \cup ReadingsBin

\* Readings for the charts: temperatures inside a bin, on an edge and just
\* above one, and a reading the filter drops.
ReadingsCharts ==
    ReadingsBin \cup
    {[Power_MW |-> 300001, PowerSwing_MW |-> 30000, Press_psig |-> 2000, Temp_F |-> 10430],
     [Power_MW |-> 300000, PowerSwing_MW |-> 30000, Press_psig |-> 2000, Temp_F |-> 10430]}

\* First hour of the table: 2015-03-31 23:00 and 2015-12-31 23:00.
StartHours == {2159, 8759}

\* Enthalpies the steam table may return (2500 and 3500 kJ/kg).
HVals == {250, 350}

\* What IAPWS97(P, T).h can do at one point: return h or raise the
\* out-of-bound NotImplementedError.
Outcomes ==
    {[raised |-> "NotImplementedError", msg |-> "Incoming out of bound", h |-> 0]}
    \cup {[raised |-> "none", msg |-> "", h |-> v] : v \in HVals}

\* The table main hands to calculate_enthalpy_dataframe: one row per hour,
\* consecutive hours from start.
Table(start, rs) ==
    [i \in 1..Len(rs) |->
        [Timestamp |-> start + i - 1, Power_MW |-> rs[i].Power_MW,
         PowerSwing_MW |-> rs[i].PowerSwing_MW, Press_psig |-> rs[i].Press_psig,
         Temp_F |-> rs[i].Temp_F]]

\* Every table of at most MaxRows rows over the readings R.  The temperatures
\* drawn are at least 1000 degF, so range(1000, ...) below has an edge.
Tables(R) ==
    {Table(s, rs) : s \in StartHours,
                    rs \in UNION {[1..n -> R] : n \in 1..MaxRows}}

\* ------------------------------------------------------- unit conversions

\* Mutant of Press_psia: the atmosphere subtracted instead of added.
Press_psia_minus(psig) == psig - 147

\* df['Press (psia)'] = df['Press (psig)'] + 14.7
Press_psia(psig) == psig + 147

\* df['Temp (K)'] = (df['Temp (F)'] - 32) * 5/9 + 273.15
Temp_K(f) == (f - 320) * 100 + 491670

\* df['Press (MPa)'] = df['Press (psia)'] * 6894.76 / 10**6
Press_MPa(psia) == psia * 689476

\* Mutant of Enthalpy_BTU_lb: a missing enthalpy filled with zero.
Enthalpy_BTU_lb_fillzero(kj) == IF kj = NaN THEN <<0>> ELSE <<kj[1] * 4299226>>

\* Series * 0.4299226 : a missing value stays missing
Enthalpy_BTU_lb(kj) == IF kj = NaN THEN NaN ELSE <<kj[1] * 4299226>>

\* The (P, T) points of a table.
Points(t) ==
    {<<Press_MPa(Press_psia(t[i].Press_psig)), Temp_K(t[i].Temp_F)>> : i \in 1..Len(t)}

\* IAPWS97(P=..., T=...).h
IAPWS97(P, T) == steam[<<P, T>>]

\* ----------------------------------------------------- calculate_enthalpy

\* Mutant of calculate_enthalpy: the except clause names another exception
\* class, so the out-of-bound error escapes.
calculate_enthalpy_uncaught(row) ==
    LET r == IAPWS97(row.Press_MPa, row.Temp_K) IN
    IF r.raised = "none"
      THEN [ret |-> <<r.h>>, warn |-> <<>>, raised |-> "none"]
    ELSE IF r.raised = "ValueError"
      THEN [ret |-> NaN,
            warn |-> <<[Timestamp |-> row.Timestamp, P |-> row.Press_MPa,
                        T |-> row.Temp_K, e |-> r.msg]>>,
            raised |-> "none"]
    ELSE [ret |-> NaN, warn |-> <<>>, raised |-> r.raised]

\* Mutant of calculate_enthalpy: the failure is swallowed without a warning.
calculate_enthalpy_silent(row) ==
    LET r == IAPWS97(row.Press_MPa, row.Temp_K) IN
    IF r.raised = "none"
      THEN [ret |-> <<r.h>>, warn |-> <<>>, raised |-> "none"]
    ELSE IF r.raised = "NotImplementedError"
      THEN [ret |-> NaN, warn |-> <<>>, raised |-> "none"]
    ELSE [ret |-> NaN, warn |-> <<>>, raised |-> r.raised]

\* The try/except of calculate_enthalpy on one row: ret is the returned
\* value, warn the warnings logged, raised the exception that escapes.
calculate_enthalpy(row) ==
    LET r == IAPWS97(row.Press_MPa, row.Temp_K) IN
    IF r.raised = "none"
      THEN [ret |-> <<r.h>>, warn |-> <<>>, raised |-> "none"]
    ELSE IF r.raised = "NotImplementedError"
      THEN [ret |-> NaN,
            warn |-> <<[Timestamp |-> row.Timestamp, P |-> row.Press_MPa,
                        T |-> row.Temp_K, e |-> r.msg]>>,
            raised |-> "none"]
    ELSE [ret |-> NaN, warn |-> <<>>, raised |-> r.raised]

\* The three conversion columns added to one row.
WithUnits(row) ==
    LET psia == Press_psia(row.Press_psig) IN
    [Press_psia |-> psia, Temp_K |-> Temp_K(row.Temp_F), Press_MPa |-> Press_MPa(psia)]
    @@ row

RECURSIVE ApplyRows_ffill(_, _)
\* Mutant of ApplyRows: a failed row takes the enthalpy of the row before it.
ApplyRows_ffill(t, n) ==
    IF n = 0 THEN [col |-> <<>>, warn |-> <<>>, raised |-> "none"]
    ELSE LET prev == ApplyRows_ffill(t, n - 1) IN
         IF prev.raised # "none" THEN prev
         ELSE LET c == calculate_enthalpy(t[n]) IN
              [col |-> Append(prev.col,
                              IF c.ret = NaN /\ n > 1 THEN prev.col[n - 1] ELSE c.ret),
               warn |-> prev.warn \o c.warn, raised |-> c.raised]

RECURSIVE ApplyRows(_, _)
\* df.apply(calculate_enthalpy, axis=1): the rows in order, up to row n; an
\* exception that escapes one row ends the apply.
ApplyRows(t, n) ==
    IF n = 0 THEN [col |-> <<>>, warn |-> <<>>, raised |-> "none"]
    ELSE LET prev == ApplyRows(t, n - 1) IN
         IF prev.raised # "none" THEN prev
         ELSE LET c == calculate_enthalpy(t[n]) IN
              [col |-> Append(prev.col, c.ret), warn |-> prev.warn \o c.warn,
               raised |-> c.raised]

calculate_enthalpy_dataframe(t) ==
    LET units == [i \in 1..Len(t) |-> WithUnits(t[i])]
        a == ApplyRows(units, Len(units))
    IN  IF a.raised # "none"
          THEN [df |-> units, warn |-> a.warn, raised |-> a.raised]
          ELSE [df |-> [i \in 1..Len(units) |->
                          [Enthalpy_kJ_kg |-> a.col[i],
                           Enthalpy_BTU_lb |-> Enthalpy_BTU_lb(a.col[i])] @@ units[i]],
                warn |-> a.warn, raised |-> "none"]

\* ------------------------------------------------------------ the filter

\* Mutant of equipment_constraints: the power threshold is inclusive.
equipment_constraints_ge(t) ==
    SelectSeq(t, LAMBDA row : /\ row.Power_MW >= 300000
                              /\ row.PowerSwing_MW <= 30000
                              /\ row.Temp_F > 10000)

\* df.loc[(Power > 30) & (PowerSwing <= 3) & (Temp > 1000)]
equipment_constraints(t) ==
    SelectSeq(t, LAMBDA row : /\ row.Power_MW > 300000
                              /\ row.PowerSwing_MW <= 30000
                              /\ row.Temp_F > 10000)

\* ------------------------------------------------------------ the binning

\* pd.to_datetime(Timestamp).dt.year, for the years 2015 and 2016
Year(ts) == IF ts < 365 * 24 THEN 2015 ELSE 2016

\* pd.to_datetime(Timestamp).dt.to_period('Q')
Quarter(ts) ==
    LET y == Year(ts)
        leap == IF y = 2016 THEN 1 ELSE 0
        day == (IF y = 2015 THEN ts ELSE ts - 365 * 24) \div 24
    IN  [year |-> y,
         q |-> IF day < 90 + leap THEN 1
               ELSE IF day < 181 + leap THEN 2
               ELSE IF day < 273 + leap THEN 3 ELSE 4]

\* Timestamp.dt.hour
Hour(ts) == ts % 24

\* f'{i} - {i + width}F'
Label(i, width) == [lo |-> i, hi |-> i + width]

\* range(start, stop, step) as a sequence
Range(start, stop, step) ==
    LET n == IF stop <= start THEN 0 ELSE (stop - start + step - 1) \div step
    IN  [k \in 1..n |-> start + (k - 1) * step]

RECURSIVE SetMax(_)
SetMax(S) ==
    LET x == CHOOSE x \in S : TRUE
    IN  IF S = {x} THEN x
        ELSE LET m == SetMax(S \ {x}) IN IF x > m THEN x ELSE m

\* df['Temp (F)'].max()
MaxTemp(t) == SetMax({t[i].Temp_F : i \in 1..Len(t)})

\* range(1000, int(df['Temp (F)'].max()) + width, width)
temp_bins(t, width) == Range(1000, (MaxTemp(t) \div 10) + width, width)

\* [label(i) for i in temp_bins[:-1]]
bin_labels(bins, width) == [k \in 1..(Len(bins) - 1) |-> Label(bins[k], width)]

\* pd.cut(x, bins, labels): the bin (bins[k], bins[k+1]] holding x, else missing
cut(x, bins, labels) ==
    IF \E k \in 1..(Len(bins) - 1) : bins[k] * 10 < x /\ x <= bins[k + 1] * 10
      THEN <<labels[CHOOSE k \in 1..(Len(bins) - 1) :
                       bins[k] * 10 < x /\ x <= bins[k + 1] * 10]>>
      ELSE NaN

SeqToSet(s) == {s[k] : k \in 1..Len(s)}

RECURSIVE SumHours(_, _)
\* the sum of the Hours column over the groups K of an aggregate
SumHours(agg, K) ==
    IF K = {} THEN 0
    ELSE LET k == CHOOSE k \in K : TRUE IN agg[k] + SumHours(agg, K \ {k})

\* groupby(['Year', 'Quarter', 'Temp_Range'], observed=False).size(): one
\* group per year, quarter and category, rows without a bin dropped
GroupSize(t, cats) ==
    [key \in {t[i].Year : i \in 1..Len(t)} \X {t[i].Quarter : i \in 1..Len(t)}
             \X SeqToSet(cats) |->
        Cardinality({i \in 1..Len(t) :
            /\ t[i].Year = key[1]
            /\ t[i].Quarter = key[2]
            /\ t[i].Temp_Range = <<key[3]>>})]

\* The part of chart_1 that computes: the shared table with Quarter, Year
\* and Temp_Range written into it, the filtered rows and the aggregate
\* before and after the 'Hours > 5' cut.
chart_1(t) ==
    LET bins == temp_bins(t, 50)
        labels == bin_labels(bins, 50)
        t1 == [i \in 1..Len(t) |->
                 [Quarter |-> Quarter(t[i].Timestamp), Year |-> Year(t[i].Timestamp),
                  Temp_Range |-> cut(t[i].Temp_F, bins, labels)] @@ t[i]]
        filtered == equipment_constraints(t1)
        agg == GroupSize(filtered, labels)
    IN  [df |-> t1, categories |-> labels, df_filtered |-> filtered,
         df_agg_all |-> agg,
         df_agg |-> [key \in {k \in DOMAIN agg : agg[k] > 5} |-> agg[key]]]

\* px.colors.qualitative.Set1
Set1 == <<"rgb(228,26,28)", "rgb(55,126,184)", "rgb(77,175,74)", "rgb(152,78,163)",
          "rgb(255,127,0)", "rgb(255,255,51)", "rgb(166,86,40)", "rgb(247,129,191)",
          "rgb(153,153,153)">>

\* Series.map(color_map): a missing label or one absent from the map is missing
MapColor(cmap, temp_range) ==
    IF temp_range # NaN /\ temp_range[1] \in DOMAIN cmap
      THEN <<cmap[temp_range[1]]>> ELSE NaN

\* Mutant of chart_2_dataframe_prep: a Temp_Range column already in the
\* shared table is kept instead of being written again.
chart_2_dataframe_prep_stale(t) ==
    LET bins == temp_bins(t, 10)
        labels == bin_labels(bins, 10)
        stale == "Temp_Range" \in DOMAIN t[1]
        t1 == [i \in 1..Len(t) |->
                 IF stale THEN t[i]
                 ELSE [Temp_Range |-> cut(t[i].Temp_F, bins, labels)] @@ t[i]]
        filtered == equipment_constraints(t1)
        cmap == [l \in SeqToSet(labels) |->
                   Set1[(((CHOOSE k \in 1..Len(labels) : labels[k] = l) - 1) % Len(Set1)) + 1]]
    IN  [df |-> t1, categories |-> IF stale THEN categories ELSE labels,
         df_filtered |-> [j \in 1..Len(filtered) |->
                            [Color |-> MapColor(cmap, filtered[j].Temp_Range)] @@ filtered[j]],
         color_map |-> cmap]

\* chart_2_dataframe_prep: the shared table with the 10-wide Temp_Range
\* written into it, the filtered rows with their Color, and the colour map
chart_2_dataframe_prep(t) ==
    LET bins == temp_bins(t, 10)
        labels == bin_labels(bins, 10)
        t1 == [i \in 1..Len(t) |->
                 [Temp_Range |-> cut(t[i].Temp_F, bins, labels)] @@ t[i]]
        filtered == equipment_constraints(t1)
        cmap == [l \in SeqToSet(labels) |->
                   Set1[(((CHOOSE k \in 1..Len(labels) : labels[k] = l) - 1) % Len(Set1)) + 1]]
    IN  [df |-> t1, categories |-> labels,
         df_filtered |-> [j \in 1..Len(filtered) |->
                            [Color |-> MapColor(cmap, filtered[j].Temp_Range)] @@ filtered[j]],
         color_map |-> cmap]

\* groupby(...).mean() of one column: sum and count of the present values
Mean(vals) ==
    LET present == {k \in 1..Len(vals) : vals[k] # NaN}
        idx == [k \in present |-> vals[k][1]]
    IN  IF present = {} THEN NaN ELSE <<SumHours(idx, present), Cardinality(present)>>

\* df_filtered.groupby('Hour')[['Enthalpy (BTU/lb)', 'Temp (F)']].mean()
HourlyAvg(t) ==
    [h \in {t[j].Hour : j \in 1..Len(t)} |->
        LET rows == SelectSeq(t, LAMBDA row : row.Hour = h) IN
        [Enthalpy_BTU_lb |-> Mean([k \in 1..Len(rows) |-> rows[k].Enthalpy_BTU_lb]),
         Temp_F |-> Mean([k \in 1..Len(rows) |-> <<rows[k].Temp_F>>])]]

\* -------------------------------------------------------------- the state

InitOf(R) ==
    /\ df \in Tables(R)
    /\ steam \in [Points(df) -> Outcomes]
    /\ log = <<>>
    /\ pc = "loaded"
    /\ categories = <<>>
    /\ df_filtered = <<>>
    /\ color_map = <<>>
    /\ df_agg_all = <<>>
    /\ df_agg = <<>>
    /\ groups = {}
    /\ hourly_avg = <<>>

Init == InitOf(Readings)

InitFilter == InitOf(ReadingsFilter)

InitCharts == InitOf(ReadingsCharts)

\* df = calculate_enthalpy_dataframe(df)
CalculateEnthalpy ==
    /\ pc = "loaded"
    /\ LET r == calculate_enthalpy_dataframe(df) IN
        /\ df' = r.df
        /\ log' = log \o r.warn
        /\ pc' = IF r.raised = "none" THEN "enthalpy" ELSE "aborted"
    /\ UNCHANGED <<steam, categories, df_filtered, color_map, df_agg_all, df_agg,
                   groups, hourly_avg>>

\* chart_1(df)
DoChart1 ==
    /\ LET r == chart_1(df) IN
        /\ df' = r.df
        /\ categories' = r.categories
        /\ df_filtered' = r.df_filtered
        /\ df_agg_all' = r.df_agg_all
        /\ df_agg' = r.df_agg
    /\ color_map' = <<>>
    /\ groups' = {}
    /\ hourly_avg' = <<>>
    /\ pc' = "chart_1"
    /\ UNCHANGED <<steam, log>>

\* chart_2_3d(df): one trace per category, coloured by color_map[temp_range];
\* a category that is no key of the map raises KeyError
DoChart2_3d ==
    /\ LET r == chart_2_dataframe_prep(df) IN
        /\ df' = r.df
        /\ categories' = r.categories
        /\ df_filtered' = r.df_filtered
        /\ color_map' = r.color_map
        /\ groups' = SeqToSet(r.categories)
        /\ pc' = IF SeqToSet(r.categories) \subseteq DOMAIN r.color_map
                   THEN "chart_2_3d" ELSE "aborted"
    /\ df_agg_all' = <<>>
    /\ df_agg' = <<>>
    /\ hourly_avg' = <<>>
    /\ UNCHANGED <<steam, log>>

\* chart_2_2d(df): one trace per category, coloured by the Color column
DoChart2_2d ==
    /\ LET r == chart_2_dataframe_prep(df) IN
        /\ df' = r.df
        /\ categories' = r.categories
        /\ df_filtered' = r.df_filtered
        /\ color_map' = r.color_map
        /\ groups' = SeqToSet(r.categories)
    /\ df_agg_all' = <<>>
    /\ df_agg' = <<>>
    /\ hourly_avg' = <<>>
    /\ pc' = "chart_2_2d"
    /\ UNCHANGED <<steam, log>>

\* chart_2_alternate(df): the filtered rows get an Hour and are averaged by it
DoChart2Alternate ==
    /\ LET r == chart_2_dataframe_prep(df)
           withHour == [j \in 1..Len(r.df_filtered) |->
                          [Hour |-> Hour(r.df_filtered[j].Timestamp)] @@ r.df_filtered[j]]
       IN
        /\ df' = r.df
        /\ categories' = r.categories
        /\ df_filtered' = withHour
        /\ color_map' = r.color_map
        /\ hourly_avg' = HourlyAvg(withHour)
    /\ groups' = {}
    /\ df_agg_all' = <<>>
    /\ df_agg' = <<>>
    /\ pc' = "chart_2_alternate"
    /\ UNCHANGED <<steam, log>>

\* The main block: the four charts in its order.
Chart1 == pc = "enthalpy" /\ DoChart1

Chart2_3d == pc = "chart_1" /\ DoChart2_3d

Chart2_2d == pc = "chart_2_3d" /\ DoChart2_2d

Chart2Alternate == pc = "chart_2_2d" /\ DoChart2Alternate

Next ==
    \/ CalculateEnthalpy
    \/ Chart1
    \/ Chart2_3d
    \/ Chart2_2d
    \/ Chart2Alternate

Spec == Init /\ [][Next]_vars

SpecFilter == InitFilter /\ [][Next]_vars

\* The chart functions called in any order, any number of times, on the
\* table calculate_enthalpy_dataframe returned.
Charted == {"enthalpy", "chart_1", "chart_2_3d", "chart_2_2d", "chart_2_alternate"}

AnyChart1 == pc \in Charted /\ DoChart1

AnyChart2_3d == pc \in Charted /\ DoChart2_3d

AnyChart2_2d == pc \in Charted /\ DoChart2_2d

AnyChart2Alternate == pc \in Charted /\ DoChart2Alternate

NextAnyOrder ==
    \/ CalculateEnthalpy
    \/ AnyChart1
    \/ AnyChart2_3d
    \/ AnyChart2_2d
    \/ AnyChart2Alternate

SpecAnyOrder == InitCharts /\ [][NextAnyOrder]_vars

\* ------------------------------------------------------------- the claims

ChartDone == {"chart_1", "chart_2_3d", "chart_2_2d", "chart_2_alternate"}

\* The steam-table outcome at the point of row.
Lookup(row) == steam[<<row.Press_MPa, row.Temp_K>>]

\* The rows of the shared table whose lookup failed.
Failing == SelectSeq(df, LAMBDA row : Lookup(row).raised # "none")

\* Row j of df_filtered is row i of df: every field of the shared row kept.
SameRow(i, j) == \A f \in DOMAIN df[i] : df_filtered[j][f] = df[i][f]

\* The predicate of the claim: Power > 30, PowerSwing <= 3, Temp > 1000.
Qualifies(row) ==
    row.Power_MW > 30 * 10000 /\ row.PowerSwing_MW <= 3 * 10000 /\ row.Temp_F > 1000 * 10

\* C1: after any chart has filtered the shared table, a row of the table is
\* in the filtered result if and only if Power > 30, PowerSwing <= 3 and
\* Temp > 1000; every filtered row is a row of the table with all its field
\* values, and no row occurs twice.
C1_FilterExact ==
    pc \in ChartDone =>
        /\ \A i \in 1..Len(df) :
              Qualifies(df[i]) <=> \E j \in 1..Len(df_filtered) : SameRow(i, j)
        /\ \A j \in 1..Len(df_filtered) : \E i \in 1..Len(df) : SameRow(i, j)
        /\ \A j, k \in 1..Len(df_filtered) :
              df_filtered[j].Timestamp = df_filtered[k].Timestamp => j = k

\* A table with a row at 30.0001 MW and swing 3 that was kept and a row at
\* 30 MW that was dropped.
C1_Witness ==
    /\ pc = "chart_1"
    /\ \E i, k \in 1..Len(df) :
          /\ df[i].Power_MW = 300001 /\ df[i].PowerSwing_MW = 30000
          /\ \E j \in 1..Len(df_filtered) : SameRow(i, j)
          /\ df[k].Power_MW = 300000 /\ df[k].Temp_F > 10000
          /\ ~ \E j \in 1..Len(df_filtered) : SameRow(k, j)

\* C2: calculate_enthalpy_dataframe always returns; a row whose lookup
\* fails has a missing Enthalpy (kJ/kg) and every other row has the value
\* the steam table gives at its own point.
C2_FailureIsolated ==
    pc # "loaded" =>
        /\ pc # "aborted"
        /\ \A i \in 1..Len(df) :
              /\ "Enthalpy_kJ_kg" \in DOMAIN df[i]
              /\ Lookup(df[i]).raised # "none" => df[i].Enthalpy_kJ_kg = NaN
              /\ Lookup(df[i]).raised = "none" => df[i].Enthalpy_kJ_kg = <<Lookup(df[i]).h>>

\* The first row failed and the second row has its enthalpy.
C2_Witness ==
    /\ pc = "enthalpy" /\ Len(df) = 2
    /\ Lookup(df[1]).raised = "NotImplementedError" /\ df[1].Enthalpy_kJ_kg = NaN
    /\ Lookup(df[2]).raised = "none" /\ df[2].Enthalpy_kJ_kg # NaN

\* C3: in the returned table Enthalpy (BTU/lb) is missing exactly when
\* Enthalpy (kJ/kg) is missing, and otherwise is Enthalpy (kJ/kg) * 0.4299226.
C3_MissingPropagates ==
    pc \notin {"loaded", "aborted"} =>
        \A i \in 1..Len(df) :
            /\ df[i].Enthalpy_BTU_lb = NaN <=> df[i].Enthalpy_kJ_kg = NaN
            /\ df[i].Enthalpy_kJ_kg # NaN =>
                  df[i].Enthalpy_BTU_lb = <<df[i].Enthalpy_kJ_kg[1] * 4299226>>

\* Every row of a two-row table failed and both enthalpies are missing.
C3_Witness ==
    /\ pc = "enthalpy" /\ Len(df) = 2
    /\ \A i \in 1..2 : Lookup(df[i]).raised # "none" /\ df[i].Enthalpy_BTU_lb = NaN

\* C4: after a chart has binned the shared table, if the observed maximum
\* temperature is above 1000 the upper edge of the last bin is at least the
\* maximum and the row holding the maximum is in the last bin.
C4_BinningCoverage ==
    (pc \in ChartDone /\ MaxTemp(df) > 10000) =>
        /\ Len(categories) > 0
        /\ categories[Len(categories)].hi * 10 >= MaxTemp(df)
        /\ \A i \in 1..Len(df) :
              df[i].Temp_F = MaxTemp(df) => df[i].Temp_Range = <<categories[Len(categories)]>>

\* C5: the log holds exactly one warning per failing row, in row order, with
\* the row's Timestamp, Press (MPa), Temp (K) and the reason, and so as many
\* warnings as rows with a missing Enthalpy (kJ/kg).
C5_OneWarningPerFailure ==
    pc \notin {"loaded", "aborted"} =>
        /\ Len(log) = Len(Failing)
        /\ \A k \in 1..Len(log) :
              log[k] = [Timestamp |-> Failing[k].Timestamp, P |-> Failing[k].Press_MPa,
                        T |-> Failing[k].Temp_K, e |-> Lookup(Failing[k]).msg]
        /\ Len(log) = Cardinality({i \in 1..Len(df) : df[i].Enthalpy_kJ_kg = NaN})

\* One row failed, one did not, and the log holds the one warning.
C5_Witness ==
    /\ pc = "enthalpy" /\ Len(df) = 2 /\ Len(log) = 1
    /\ Lookup(df[1]).raised = "none"
    /\ log[1].Timestamp = df[2].Timestamp

\* The derived fields of a reading, from its own raw fields and the steam
\* table alone.
Derived(psig, tempF) ==
    LET P == (psig + 147) * 689476
        T == (tempF - 320) * 100 + 491670
        o == steam[<<P, T>>]
    IN  [Press_psia |-> psig + 147, Press_MPa |-> P, Temp_K |-> T,
         Enthalpy_kJ_kg |-> IF o.raised = "none" THEN <<o.h>> ELSE NaN,
         Enthalpy_BTU_lb |-> IF o.raised = "none" THEN <<o.h * 4299226>> ELSE NaN]

\* C6: calculate_enthalpy_dataframe keeps the rows (same Timestamps, one row
\* each, raw fields untouched) and gives each row derived fields that depend
\* only on that row's Press (psig) and Temp (F), whatever the other rows are.
C6_RowLocal ==
    [][pc = "loaded" =>
        /\ Len(df') = Len(df)
        /\ \A i \in 1..Len(df) :
              /\ \A f \in DOMAIN df[i] : df'[i][f] = df[i][f]
              /\ \A f \in DOMAIN Derived(df[i].Press_psig, df[i].Temp_F) :
                    df'[i][f] = Derived(df[i].Press_psig, df[i].Temp_F)[f]]_vars

\* Two rows with the same pressure and temperature but different power got
\* the same enthalpy, next to nothing else in common.
C6_Witness ==
    /\ pc = "enthalpy" /\ Len(df) = 2
    /\ df[1].Press_psig = df[2].Press_psig /\ df[1].Temp_F = df[2].Temp_F
    /\ df[1].Power_MW # df[2].Power_MW
    /\ df[1].Enthalpy_BTU_lb = df[2].Enthalpy_BTU_lb

\* C7: the conversion gives every row its Press (psia) = Press (psig) + 14.7
\* and Press (MPa) = Press (psia) * 6894.76 / 10^6, and both are >= 0 when
\* Press (psig) >= -14.7.
C7_PressureBound ==
    pc # "loaded" =>
        \A i \in 1..Len(df) :
            /\ {"Press_psia", "Press_MPa", "Temp_K"} \subseteq DOMAIN df[i]
            /\ df[i].Press_psia = df[i].Press_psig + 147
            /\ df[i].Press_MPa = df[i].Press_psia * 689476
            /\ df[i].Press_psig >= -147 => df[i].Press_psia >= 0 /\ df[i].Press_MPa >= 0

\* A row at -14.7 psig with zero absolute pressure next to a row below it.
C7_Witness ==
    /\ pc = "enthalpy" /\ Len(df) = 2
    /\ df[1].Press_psig = -147 /\ df[1].Press_MPa = 0
    /\ df[2].Press_psig < -147 /\ df[2].Press_MPa < 0

\* C8: once the derived fields are in the shared table, no chart of the main
\* block changes the table: it is the same after each call as before it.
C8_ChartsLeaveTable ==
    [][(pc \in Charted) => (df' = df)]_vars

\* C9: no filtered row is lost by binning: after chart_1 every filtered row
\* has a Temp_Range and the Hours of the groups, before the cut, add up to
\* the number of filtered rows; after a chart_2 variant every filtered row
\* has a Temp_Range and a Color.
C9_NoRowLost ==
    /\ pc = "chart_1" =>
          /\ \A j \in 1..Len(df_filtered) : df_filtered[j].Temp_Range # NaN
          /\ SumHours(df_agg_all, DOMAIN df_agg_all) = Len(df_filtered)
    /\ pc \in ChartDone \ {"chart_1"} =>
          \A j \in 1..Len(df_filtered) :
              df_filtered[j].Temp_Range # NaN /\ df_filtered[j].Color # NaN

\* The bin of width w that holds the temperature x.
InBin(label, w, x) ==
    label.hi - label.lo = w /\ label.lo * 10 < x /\ x <= label.hi * 10

\* C10: whatever charts ran before, chart_1 groups by 50-wide bins and a
\* chart_2 variant groups and colours by 10-wide bins computed in the same
\* call, every label it meets when grouping is a key of its colour map, and
\* no chart fails.
C10_BinningsIndependent ==
    /\ pc # "aborted"
    /\ pc = "chart_1" =>
          /\ \A k \in 1..Len(categories) : categories[k].hi - categories[k].lo = 50
          /\ \A key \in DOMAIN df_agg_all : key[3].hi - key[3].lo = 50
          /\ \A j \in 1..Len(df_filtered) :
                df_filtered[j].Temp_Range # NaN =>
                    InBin(df_filtered[j].Temp_Range[1], 50, df_filtered[j].Temp_F)
    /\ pc \in ChartDone \ {"chart_1"} =>
          /\ \A k \in 1..Len(categories) : categories[k].hi - categories[k].lo = 10
          /\ groups \subseteq DOMAIN color_map
          /\ \A l \in groups : l.hi - l.lo = 10
          /\ \A j \in 1..Len(df_filtered) :
                df_filtered[j].Temp_Range # NaN =>
                    /\ InBin(df_filtered[j].Temp_Range[1], 10, df_filtered[j].Temp_F)
                    /\ df_filtered[j].Color = <<color_map[df_filtered[j].Temp_Range[1]]>>

\* chart_2_3d ran on a table chart_1 had already binned, met labels when
\* grouping and coloured a row.
C10_Witness ==
    /\ pc = "chart_2_3d"
    /\ "Quarter" \in DOMAIN df[1]
    /\ groups # {}
    /\ \E j \in 1..Len(df_filtered) : df_filtered[j].Color # NaN
====
